---- MODULE Spec2Model ----
(***************************************************************************)
(* The ChromaDB bootstrap scripts of Forest7-15 as one state machine:      *)
(*   "server"  src/___stage1/start-chromadb-server.py                      *)
(*   "simple"  src/___stage1/chromadb-simple-server.py                     *)
(*   "local"   src/start-local-chromadb-server.py                          *)
(*   "diag"    src/test-chromadb-simple.py                                 *)
(* One execution of one script is one behaviour.  The environment (which   *)
(* modules import, whether chromadb has run_server, the file system, the   *)
(* --data-dir flag) is chosen in Init; what the external calls do (the     *)
(* server runner, the client constructor, pip) is chosen when they return. *)
(* pc is the statement the process is at; trace is the ordered record of   *)
(* the observable effects (prints, mkdir, os.environ writes, imports,      *)
(* external calls, raised exceptions).                                     *)
(***************************************************************************)
EXTENDS Naturals, Sequences, FiniteSets

VARIABLES script, pc, chromadbAvail, hasRunServer, fastapiAvail, uvicornAvail,
          dataDir, fs, fs0, environ, trace, exc, retval, installed, exitCode

vars == <<script, pc, chromadbAvail, hasRunServer, fastapiAvail, uvicornAvail,
          dataDir, fs, fs0, environ, trace, exc, retval, installed, exitCode>>

\* What no statement of any script changes.
inputs == <<script, hasRunServer, fastapiAvail, uvicornAvail, dataDir, fs0>>

\* Length of the longest modelled path: path p is a directory chain of p
\* components below an existing directory, p - 1 being the parent of p.
Depth == 2

Paths == 1..Depth

\* args.data_dir when --data-dir is not given (argparse's default None).
NoDataDir == 0

\* ~/.forest-data and ~/.forest-data/.chromadb
ForestDataDir == 1

ChromaDataDir == 2

Scripts == {"server", "simple", "local", "diag"}

Bootstrap == {"server", "simple", "local"}

FileStates == {"absent", "dir", "file"}

\* A file system the OS can hold: below anything that is not a directory
\* there is nothing.
ValidFs(f) == \A p \in Paths : (p > 1 /\ f[p - 1] # "dir") => f[p] = "absent"

NoEnviron == [CHROMA_DB_IMPL |-> "unset", CHROMA_PERSIST_DIRECTORY |-> "unset"]

NoExc == [cls |-> "none", arg |-> ""]

\* One observable effect, stamped with the statement that made it.
Ev(k, a, info) == [k |-> k, a |-> a, info |-> info, at |-> pc]

\* print(...) or logger.info/error(...): the text and the packages it names.
Say(m, pkgs) == Ev("print", m, pkgs)

------------------------------------------------------------------------------
\* Python's exception classes as the scripts' except clauses see them.
IsInstance(cls, h) ==
    \/ h = "BaseException"
    \/ h = cls
    \/ h = "Exception" /\ cls \in {"ImportError", "OSError", "CalledProcessError"}

\* The except clause that catches cls: the first matching one of the
\* enclosing try statements, innermost first.
RECURSIVE Dispatch(_, _)
Dispatch(cls, handlers) ==
    IF handlers = <<>> THEN "uncaught"
    ELSE IF IsInstance(cls, Head(handlers)[1]) THEN Head(handlers)[2]
    ELSE Dispatch(cls, Tail(handlers))

\* pathlib.Path(p).mkdir(parents=.., exist_ok=..): the new file system and
\* the error raised ("none" when it returns).
RECURSIVE Mkdir(_, _, _, _)
Mkdir(f, p, parents, exist_ok) ==
    LET parent == IF p = 1 THEN "dir" ELSE f[p - 1] IN
    IF parent = "dir" /\ f[p] = "absent"
    THEN [fs |-> [f EXCEPT ![p] = "dir"], err |-> "none"]
    ELSE IF parent = "absent"
    THEN \* FileNotFoundError
         IF ~parents \/ p = 1 THEN [fs |-> f, err |-> "OSError"]
         ELSE LET r == Mkdir(f, p - 1, TRUE, TRUE) IN
              IF r.err # "none" THEN r ELSE Mkdir(r.fs, p, FALSE, exist_ok)
    ELSE \* another OSError: FileExistsError, NotADirectoryError
         IF exist_ok /\ f[p] = "dir" THEN [fs |-> f, err |-> "none"]
         ELSE [fs |-> f, err |-> "OSError"]

\* What a blocking call into the server runner can end with.
RunnerOutcomes == {"return", "Exception", "KeyboardInterrupt"}

\* What a call into the client library can end with.
CallOutcomes == {"return", "Exception"}

------------------------------------------------------------------------------
\* The try statements: each except clause as <<class, its first statement>>.
\* Faulty variant of SrvStartTry: a failed start falls back to the uvicorn
\* path instead of being reported.
SrvStartTryFallback == << <<"ImportError", "srv_except_import">>,
                          <<"Exception", "srv_import_app">> >>

SrvStartTry == << <<"ImportError", "srv_except_import">>,
                  <<"Exception", "srv_except_exception">> >>

SrvMainTry == << <<"KeyboardInterrupt", "srv_main_kbd">>,
                 <<"Exception", "srv_main_exception">> >>

SmpInnerTry == << <<"ImportError", "smp_except_import_inner">> >>

SmpOuterTry == << <<"ImportError", "smp_except_import">>,
                  <<"Exception", "smp_except_exception">> >>

SmpMainTry == << <<"KeyboardInterrupt", "smp_main_kbd">> >>

LocInstallTry == << <<"ImportError", "loc_install_except">> >>

LocPipTry == << <<"CalledProcessError", "loc_install_failed">> >>

\* Faulty variant of LocServerTry: a bare `except:` around the first start.
LocServerTryBare == << <<"BaseException", "loc_alt">> >>

LocServerTry == << <<"Exception", "loc_alt">> >>

LocStartTry == << <<"ImportError", "loc_except_import">>,
                  <<"Exception", "loc_except_exception">> >>

LocMainTry == << <<"KeyboardInterrupt", "loc_main_kbd">>,
                 <<"Exception", "loc_main_exception">> >>

DgAppTry == << <<"ImportError", "dg_app_unavailable">> >>

DgUvicornTry == << <<"ImportError", "dg_uvicorn_unavailable">> >>

\* Faulty variant of DgClientTry: only import errors are caught.
DgClientTryImportOnly == << <<"ImportError", "dg_client_failed">> >>

DgClientTry == << <<"Exception", "dg_client_failed">> >>

DgOuterTry == << <<"ImportError", "dg_except_import">> >>

\* The except clauses in force at statement p, innermost try first.
EnclosingHandlers(p) ==
    CASE p \in {"srv_import_chromadb", "srv_datadir", "srv_branch",
                "srv_in_run_server", "srv_import_app", "srv_import_uvicorn",
                "srv_setenv", "srv_in_uvicorn"} -> SrvStartTry \o SrvMainTry
      [] p \in {"srv_except_import", "srv_except_exception"} -> SrvMainTry
      [] p \in {"smp_import_fastapi", "smp_import_uvicorn", "smp_client",
                "smp_in_uvicorn"} -> SmpInnerTry \o SmpOuterTry \o SmpMainTry
      [] p \in {"smp_import_chromadb", "smp_datadir"} -> SmpOuterTry \o SmpMainTry
      [] p = "loc_install_import" -> LocInstallTry
      [] p = "loc_in_pip" -> LocPipTry
      [] p \in {"loc_import_app", "loc_in_uvicorn"} ->
             LocServerTry \o LocStartTry \o LocMainTry
      [] p \in {"loc_import_chromadb", "loc_import_uvicorn", "loc_mkdirs",
                "loc_client", "loc_alt", "loc_in_uvicorn_alt"} ->
             LocStartTry \o LocMainTry
      [] p = "dg_import_app" -> DgAppTry \o DgOuterTry
      [] p = "dg_import_uvicorn" -> DgUvicornTry \o DgOuterTry
      [] p \in {"dg_client", "dg_list"} -> DgClientTry \o DgOuterTry
      [] p = "dg_import_chromadb" -> DgOuterTry
      [] OTHER -> <<>>

\* An ordinary step: the events happen and control moves on.
Goto(next, events) ==
    /\ pc' = next
    /\ trace' = trace \o events
    /\ UNCHANGED <<exc, exitCode>>

\* The statement at pc raises cls(arg) after `events`: control moves to the
\* except clause that catches it; uncaught, the interpreter ends the
\* process with status 1 (sys.exit(1), or a traceback).
Raise(cls, arg, events) ==
    LET h == Dispatch(cls, EnclosingHandlers(pc)) IN
    /\ trace' = trace \o events \o <<Ev("raise", cls, {arg})>>
    /\ exc' = [cls |-> cls, arg |-> arg]
    /\ pc' = IF h = "uncaught" THEN "done" ELSE h
    /\ exitCode' = IF h = "uncaught" THEN "1" ELSE exitCode

\* `import m`, the module being importable or not.
Import(m, avail, next, events) ==
    IF avail THEN Goto(next, <<Ev("import", m, {})>> \o events)
    ELSE Raise("ImportError", m, <<>>)

------------------------------------------------------------------------------
Init ==
    /\ script \in Scripts
    /\ chromadbAvail \in BOOLEAN
    /\ hasRunServer \in BOOLEAN
    /\ fastapiAvail \in BOOLEAN
    /\ uvicornAvail \in BOOLEAN
    /\ dataDir \in {NoDataDir} \cup Paths
    /\ fs \in {f \in [Paths -> FileStates] : ValidFs(f)}
    /\ fs0 = fs
    /\ environ = NoEnviron
    /\ trace = <<>>
    /\ exc = NoExc
    /\ retval = "none"
    /\ installed = "none"
    /\ exitCode = "none"
    /\ pc = "main"

------------------------------------------------------------------------------
\* Every script: the interpreter enters main() (test_chromadb() in "diag").
Main ==
    /\ pc = "main"
    /\ Goto(CASE script = "server" -> "srv_import_chromadb"
              [] script = "simple" -> "smp_import_chromadb"
              [] script = "local" -> "loc_install_import"
              [] script = "diag" -> "dg_import_chromadb",
            IF script = "server"
            THEN <<Say("ChromaDB Server for Forest Integration", {})>>
            ELSE IF script = "local"
            THEN <<Say("Starting ChromaDB server for Forest MCP", {})>>
            ELSE <<>>)
    /\ UNCHANGED <<inputs, chromadbAvail, fs, environ, retval, installed>>

\* Every script: main() returns and the interpreter exits with status 0.
MainEnd ==
    /\ pc = "main_end"
    /\ pc' = "done"
    /\ exitCode' = "0"
    /\ UNCHANGED <<inputs, chromadbAvail, fs, environ, trace, exc, retval,
                   installed>>

\* A blocking call into the server runner ends: it returns, fails, or the
\* user interrupts it.
RunnerEnds(at, then) ==
    /\ pc = at
    /\ \E o \in RunnerOutcomes :
          IF o = "return" THEN Goto(then, <<>>)
          ELSE Raise(o, "runner", <<>>)
    /\ UNCHANGED <<inputs, chromadbAvail, fs, environ, retval, installed>>

------------------------------------------------------------------------------
\* start-chromadb-server.py

\* Faulty variant of SrvSettings: run_server is called without **settings.
SrvSettingsDropped == {}

\* The keyword arguments after host and port: **settings.
SrvSettings == IF dataDir # NoDataDir THEN {"persist_directory"} ELSE {}

SrvImportChromadb ==
    /\ pc = "srv_import_chromadb"
    /\ Import("chromadb", chromadbAvail, "srv_datadir",
              <<Say("Starting ChromaDB server", {"chromadb"}),
                Say("Data directory: {data_dir or 'default'}", {})>>)
    /\ UNCHANGED <<inputs, chromadbAvail, fs, environ, retval, installed>>

\* Faulty variant of DataDirMkdir: exist_ok is left out.
DataDirMkdirNoExistOk(f, p) == Mkdir(f, p, TRUE, FALSE)

\* The --data-dir step of both scripts that take the flag.
DataDirMkdir(f, p) == Mkdir(f, p, TRUE, TRUE)

SrvDataDir ==
    /\ pc = "srv_datadir"
    /\ IF dataDir # NoDataDir
       THEN LET r == DataDirMkdir(fs, dataDir) IN
            IF r.err = "none"
            THEN /\ fs' = r.fs
                 /\ Goto("srv_branch", <<Ev("mkdir", "data_dir", {}),
                                         Say("Data directory created", {})>>)
            ELSE /\ fs' = r.fs
                 /\ Raise(r.err, "data_dir", <<>>)
       ELSE /\ fs' = fs
            /\ Goto("srv_branch", <<>>)
    /\ UNCHANGED <<inputs, chromadbAvail, environ, retval, installed>>

SrvBranch ==
    /\ pc = "srv_branch"
    /\ IF hasRunServer
       THEN Goto("srv_in_run_server",
                 <<Ev("call", "chromadb.run_server",
                      {"host", "port"} \cup SrvSettings)>>)
       ELSE Goto("srv_import_app", <<>>)
    /\ UNCHANGED <<inputs, chromadbAvail, fs, environ, retval, installed>>

SrvRunServerEnds == RunnerEnds("srv_in_run_server", "main_end")

SrvImportApp ==
    /\ pc = "srv_import_app"
    /\ Import("chromadb.server.fastapi.app", fastapiAvail,
              "srv_import_uvicorn", <<>>)
    /\ UNCHANGED <<inputs, chromadbAvail, fs, environ, retval, installed>>

SrvImportUvicorn ==
    /\ pc = "srv_import_uvicorn"
    /\ Import("uvicorn", uvicornAvail, "srv_setenv", <<>>)
    /\ UNCHANGED <<inputs, chromadbAvail, fs, environ, retval, installed>>

\* Faulty variant of SrvSetEnv: the variables are written without the
\* `if data_dir:` test.
SrvSetEnvAlways ==
    /\ pc = "srv_setenv"
    /\ environ' = [CHROMA_DB_IMPL |-> "duckdb+parquet",
                   CHROMA_PERSIST_DIRECTORY |-> "data_dir"]
    /\ Goto("srv_in_uvicorn",
            <<Ev("setenv", "CHROMA_DB_IMPL", {"duckdb+parquet"}),
              Ev("setenv", "CHROMA_PERSIST_DIRECTORY", {"data_dir"}),
              Say("Starting server on http://{host}:{port}", {}),
              Ev("call", "uvicorn.run", {"app", "host", "port"})>>)
    /\ UNCHANGED <<inputs, chromadbAvail, fs, retval, installed>>

SrvSetEnv ==
    /\ pc = "srv_setenv"
    /\ IF dataDir # NoDataDir
       THEN /\ environ' = [CHROMA_DB_IMPL |-> "duckdb+parquet",
                           CHROMA_PERSIST_DIRECTORY |-> "data_dir"]
            /\ Goto("srv_in_uvicorn",
                    <<Ev("setenv", "CHROMA_DB_IMPL", {"duckdb+parquet"}),
                      Ev("setenv", "CHROMA_PERSIST_DIRECTORY", {"data_dir"}),
                      Say("Starting server on http://{host}:{port}", {}),
                      Ev("call", "uvicorn.run", {"app", "host", "port"})>>)
       ELSE /\ environ' = environ
            /\ Goto("srv_in_uvicorn",
                    <<Say("Starting server on http://{host}:{port}", {}),
                      Ev("call", "uvicorn.run", {"app", "host", "port"})>>)
    /\ UNCHANGED <<inputs, chromadbAvail, fs, retval, installed>>

SrvUvicornEnds == RunnerEnds("srv_in_uvicorn", "main_end")

------------------------------------------------------------------------------
\* chromadb-simple-server.py

SmpImportChromadb ==
    /\ pc = "smp_import_chromadb"
    /\ Import("chromadb", chromadbAvail, "smp_datadir",
              <<Say("ChromaDB v{chromadb.__version__}", {"chromadb"})>>)
    /\ UNCHANGED <<inputs, chromadbAvail, fs, environ, retval, installed>>

SmpDataDir ==
    /\ pc = "smp_datadir"
    /\ IF dataDir # NoDataDir
       THEN LET r == DataDirMkdir(fs, dataDir) IN
            IF r.err = "none"
            THEN /\ fs' = r.fs
                 /\ environ' = [CHROMA_DB_IMPL |-> "duckdb+parquet",
                                CHROMA_PERSIST_DIRECTORY |-> "data_dir"]
                 /\ Goto("smp_import_fastapi",
                      <<Ev("mkdir", "data_dir", {}),
                        Say("Data directory: {data_path}", {}),
                        Ev("setenv", "CHROMA_DB_IMPL", {"duckdb+parquet"}),
                        Ev("setenv", "CHROMA_PERSIST_DIRECTORY", {"data_dir"}),
                        Say("Starting server on http://{host}:{port}", {})>>)
            ELSE /\ fs' = r.fs
                 /\ environ' = environ
                 /\ Raise(r.err, "data_dir", <<>>)
       ELSE /\ fs' = fs
            /\ environ' = environ
            /\ Goto("smp_import_fastapi",
                    <<Say("Starting server on http://{host}:{port}", {})>>)
    /\ UNCHANGED <<inputs, chromadbAvail, retval, installed>>

SmpImportFastapi ==
    /\ pc = "smp_import_fastapi"
    /\ Import("fastapi", fastapiAvail, "smp_import_uvicorn", <<>>)
    /\ UNCHANGED <<inputs, chromadbAvail, fs, environ, retval, installed>>

SmpImportUvicorn ==
    /\ pc = "smp_import_uvicorn"
    /\ Import("uvicorn", uvicornAvail, "smp_client", <<>>)
    /\ UNCHANGED <<inputs, chromadbAvail, fs, environ, retval, installed>>

\* app = FastAPI(...), the CORS middleware, the client, the four routes,
\* and the call of uvicorn.run.
SmpClient ==
    /\ pc = "smp_client"
    /\ \E o \in CallOutcomes :
          IF o = "return"
          THEN Goto("smp_in_uvicorn",
                    <<Ev("call", IF dataDir # NoDataDir
                                 THEN "chromadb.PersistentClient"
                                 ELSE "chromadb.Client", {}),
                      Say("Simple FastAPI server configured", {}),
                      Ev("call", "uvicorn.run", {"app", "host", "port"})>>)
          ELSE Raise(o, "client", <<>>)
    /\ UNCHANGED <<inputs, chromadbAvail, fs, environ, retval, installed>>

SmpUvicornEnds == RunnerEnds("smp_in_uvicorn", "main_end")

------------------------------------------------------------------------------
\* start-local-chromadb-server.py

LocInstallImport ==
    /\ pc = "loc_install_import"
    /\ Import("chromadb", chromadbAvail, "loc_main_check",
              <<Say("ChromaDB already installed", {"chromadb"})>>)
    /\ installed' = IF chromadbAvail THEN "True" ELSE installed
    /\ UNCHANGED <<inputs, chromadbAvail, fs, environ, retval>>

\* except ImportError of install_chromadb: the pip subprocess is started.
LocInstallExcept ==
    /\ pc = "loc_install_except"
    /\ Goto("loc_in_pip",
            <<Say("ChromaDB not found, installing...", {"chromadb"}),
              Ev("call", "pip install", {"chromadb"})>>)
    /\ UNCHANGED <<inputs, chromadbAvail, fs, environ, retval, installed>>

\* subprocess.check_call ends: pip installed the package, pip exited
\* non-zero (CalledProcessError), or the subprocess could not be run.
LocPipEnds ==
    /\ pc = "loc_in_pip"
    /\ \E o \in {"return", "CalledProcessError", "OSError"} :
          IF o = "return"
          THEN /\ chromadbAvail' = TRUE
               /\ installed' = "True"
               /\ Goto("loc_main_check",
                       <<Say("ChromaDB installed successfully", {"chromadb"})>>)
          ELSE /\ UNCHANGED <<chromadbAvail, installed>>
               /\ Raise(o, "pip", <<>>)
    /\ UNCHANGED <<inputs, fs, environ, retval>>

\* Faulty variant of LocMainCheck: the result of install_chromadb() is
\* not looked at.
LocMainCheckIgnored ==
    /\ pc = "loc_main_check"
    /\ Goto("loc_import_chromadb", <<>>)
    /\ UNCHANGED <<inputs, chromadbAvail, fs, environ, retval, installed>>

\* if not install_chromadb(): ... sys.exit(1)
LocMainCheck ==
    /\ pc = "loc_main_check"
    /\ IF installed # "True"
       THEN Raise("SystemExit", "1",
                  <<Say("Failed to install ChromaDB", {"chromadb"})>>)
       ELSE Goto("loc_import_chromadb", <<>>)
    /\ UNCHANGED <<inputs, chromadbAvail, fs, environ, retval, installed>>

LocImportChromadb ==
    /\ pc = "loc_import_chromadb"
    /\ Import("chromadb", chromadbAvail, "loc_import_uvicorn", <<>>)
    /\ UNCHANGED <<inputs, chromadbAvail, fs, environ, retval, installed>>

LocImportUvicorn ==
    /\ pc = "loc_import_uvicorn"
    /\ Import("uvicorn", uvicornAvail, "loc_mkdirs", <<>>)
    /\ UNCHANGED <<inputs, chromadbAvail, fs, environ, retval, installed>>

\* Path(forest_data_dir).mkdir(exist_ok=True), then the same for
\* chroma_data_dir: the first one stays made when the second one raises.
LocMkdirs ==
    /\ pc = "loc_mkdirs"
    /\ LET r1 == Mkdir(fs, ForestDataDir, FALSE, TRUE)
           r2 == Mkdir(r1.fs, ChromaDataDir, FALSE, TRUE)
       IN IF r1.err # "none"
          THEN /\ fs' = r1.fs
               /\ Raise(r1.err, "forest_data_dir", <<>>)
          ELSE IF r2.err # "none"
          THEN /\ fs' = r2.fs
               /\ Raise(r2.err, "chroma_data_dir",
                        <<Ev("mkdir", "forest_data_dir", {})>>)
          ELSE /\ fs' = r2.fs
               /\ Goto("loc_client",
                       <<Ev("mkdir", "forest_data_dir", {}),
                         Ev("mkdir", "chroma_data_dir", {}),
                         Say("ChromaDB data directory: {chroma_data_dir}", {})>>)
    /\ UNCHANGED <<inputs, chromadbAvail, environ, retval, installed>>

\* settings = Settings(...); client = chromadb.Client(settings)
LocClient ==
    /\ pc = "loc_client"
    /\ \E o \in CallOutcomes :
          IF o = "return"
          THEN Goto("loc_import_app",
                    <<Ev("call", "chromadb.Client", {"settings"}),
                      Say("ChromaDB client created with persistence", {}),
                      Say("Starting ChromaDB server on http://localhost:8000", {})>>)
          ELSE Raise(o, "client", <<>>)
    /\ UNCHANGED <<inputs, chromadbAvail, fs, environ, retval, installed>>

\* import chromadb.server.fastapi; app = ...; uvicorn.run(app, ...)
LocImportApp ==
    /\ pc = "loc_import_app"
    /\ Import("chromadb.server.fastapi.app", fastapiAvail, "loc_in_uvicorn",
              <<Ev("call", "uvicorn.run", {"app", "host", "port"})>>)
    /\ UNCHANGED <<inputs, chromadbAvail, fs, environ, retval, installed>>

LocUvicornEnds == RunnerEnds("loc_in_uvicorn", "main_end")

\* except Exception as server_error: the alternative server method.
LocAlt ==
    /\ pc = "loc_alt"
    /\ IF fastapiAvail
       THEN Goto("loc_in_uvicorn_alt",
                 <<Say("Server startup failed: {server_error}", {}),
                   Say("Trying alternative server method...", {}),
                   Ev("import", "chromadb.server.fastapi.app", {}),
                   Ev("call", "uvicorn.run",
                      {"chromadb.server.fastapi:app", "host", "port"})>>)
       ELSE Raise("ImportError", "chromadb.server.fastapi.app",
                  <<Say("Server startup failed: {server_error}", {}),
                    Say("Trying alternative server method...", {})>>)
    /\ UNCHANGED <<inputs, chromadbAvail, fs, environ, retval, installed>>

LocAltUvicornEnds == RunnerEnds("loc_in_uvicorn_alt", "main_end")

------------------------------------------------------------------------------
\* test-chromadb-simple.py

DgImportChromadb ==
    /\ pc = "dg_import_chromadb"
    /\ Import("chromadb", chromadbAvail, "dg_import_app",
              <<Say("ChromaDB version: {chromadb.__version__}", {"chromadb"})>>)
    /\ UNCHANGED <<inputs, chromadbAvail, fs, environ, retval, installed>>

DgImportApp ==
    /\ pc = "dg_import_app"
    /\ Import("chromadb.server.fastapi.app", fastapiAvail, "dg_import_uvicorn",
              <<Say("FastAPI server module available", {})>>)
    /\ UNCHANGED <<inputs, chromadbAvail, fs, environ, retval, installed>>

DgImportUvicorn ==
    /\ pc = "dg_import_uvicorn"
    /\ Import("uvicorn", uvicornAvail, "dg_client",
              <<Say("Uvicorn available", {"uvicorn"})>>)
    /\ UNCHANGED <<inputs, chromadbAvail, fs, environ, retval, installed>>

DgClient ==
    /\ pc = "dg_client"
    /\ \E o \in CallOutcomes :
          IF o = "return"
          THEN Goto("dg_list", <<Ev("call", "chromadb.Client", {}),
                                 Say("Basic ChromaDB client created", {})>>)
          ELSE Raise(o, "client", <<>>)
    /\ UNCHANGED <<inputs, chromadbAvail, fs, environ, retval, installed>>

DgList ==
    /\ pc = "dg_list"
    /\ \E o \in CallOutcomes :
          IF o = "return"
          THEN Goto("dg_contents",
                    <<Ev("call", "client.list_collections", {}),
                      Say("Collections listed: {len(collections)} found", {})>>)
          ELSE Raise(o, "list_collections", <<>>)
    /\ UNCHANGED <<inputs, chromadbAvail, fs, environ, retval, installed>>

\* The module's public attributes are logged; return True.
DgContents ==
    /\ pc = "dg_contents"
    /\ retval' = "True"
    /\ Goto("main_end", <<Say("ChromaDB module contents:", {})>>)
    /\ UNCHANGED <<inputs, chromadbAvail, fs, environ, installed>>

------------------------------------------------------------------------------
\* The except clauses that only report: what each prints (e is the caught
\* exception) and how it ends: sys.exit(1), return False, or on to `next`.
ExceptClause(h, e) ==
    CASE h = "srv_except_import" ->
           [says |-> <<Say("ChromaDB not available: {e}", {"chromadb", e.arg}),
                       Say("Install with: pip install chromadb", {"chromadb"})>>,
            ends |-> "sys.exit(1)", next |-> "done"]
      [] h = "srv_except_exception" ->
           [says |-> <<Say("Server startup failed: {e}", {})>>,
            ends |-> "sys.exit(1)", next |-> "done"]
      [] h = "srv_main_kbd" ->
           [says |-> <<Say("Server stopped by user", {})>>,
            ends |-> "next", next |-> "main_end"]
      [] h = "srv_main_exception" ->
           [says |-> <<Say("Unexpected error: {e}", {})>>,
            ends |-> "sys.exit(1)", next |-> "done"]
      [] h = "smp_except_import_inner" ->
           [says |-> <<Say("FastAPI or uvicorn not available", {"fastapi", "uvicorn"}),
                       Say("Install with: pip install fastapi uvicorn",
                           {"fastapi", "uvicorn"})>>,
            ends |-> "return False", next |-> "main_end"]
      [] h = "smp_except_import" ->
           [says |-> <<Say("ChromaDB not available", {"chromadb"}),
                       Say("Install with: pip install chromadb", {"chromadb"})>>,
            ends |-> "return False", next |-> "main_end"]
      [] h = "smp_except_exception" ->
           [says |-> <<Say("Server error: {e}", {})>>,
            ends |-> "return False", next |-> "main_end"]
      [] h = "smp_main_kbd" ->
           [says |-> <<Say("Server stopped", {})>>,
            ends |-> "next", next |-> "main_end"]
      [] h = "loc_install_failed" ->
           [says |-> <<Say("Failed to install ChromaDB: {e}", {"chromadb"})>>,
            ends |-> "return False", next |-> "loc_main_check"]
      [] h = "loc_except_import" ->
           [says |-> <<Say("ChromaDB import failed: {e}", {"chromadb", e.arg}),
                       Say("Try installing ChromaDB with: pip install chromadb",
                           {"chromadb"})>>,
            ends |-> "return False", next |-> "main_end"]
      [] h = "loc_except_exception" ->
           [says |-> <<Say("Failed to start ChromaDB server: {e}", {"chromadb"})>>,
            ends |-> "return False", next |-> "main_end"]
      [] h = "loc_main_kbd" ->
           [says |-> <<Say("ChromaDB server stopped by user", {"chromadb"})>>,
            ends |-> "next", next |-> "main_end"]
      [] h = "loc_main_exception" ->
           [says |-> <<Say("ChromaDB server failed: {e}", {"chromadb"})>>,
            ends |-> "sys.exit(1)", next |-> "done"]
      [] h = "dg_app_unavailable" ->
           [says |-> <<Say("FastAPI server not available: {e}", {e.arg})>>,
            ends |-> "next", next |-> "dg_import_uvicorn"]
      [] h = "dg_uvicorn_unavailable" ->
           [says |-> <<Say("Uvicorn not available: {e}", {"uvicorn"}),
                       Say("Install with: pip install uvicorn", {"uvicorn"})>>,
            ends |-> "next", next |-> "dg_client"]
      [] h = "dg_client_failed" ->
           [says |-> <<Say("Client creation failed: {e}", {})>>,
            ends |-> "next", next |-> "dg_contents"]
      [] h = "dg_except_import" ->
           [says |-> <<Say("ChromaDB not available: {e}", {"chromadb"})>>,
            ends |-> "return False", next |-> "main_end"]

ExceptClauses ==
    {"srv_except_import", "srv_except_exception", "srv_main_kbd",
     "srv_main_exception", "smp_except_import_inner", "smp_except_import",
     "smp_except_exception", "smp_main_kbd", "loc_install_failed",
     "loc_except_import", "loc_except_exception", "loc_main_kbd",
     "loc_main_exception", "dg_app_unavailable", "dg_uvicorn_unavailable",
     "dg_client_failed", "dg_except_import"}

\* The process runs the except clause it was sent to.
RunExceptClause ==
    /\ pc \in ExceptClauses
    /\ LET c == ExceptClause(pc, exc) IN
       IF c.ends = "sys.exit(1)"
       THEN /\ Raise("SystemExit", "1", c.says)
            /\ UNCHANGED <<retval, installed>>
       ELSE /\ Goto(c.next, c.says)
            /\ IF c.ends = "return False"
               THEN IF pc = "loc_install_failed"
                    THEN installed' = "False" /\ retval' = retval
                    ELSE retval' = "False" /\ installed' = installed
               ELSE UNCHANGED <<retval, installed>>
    /\ UNCHANGED <<inputs, chromadbAvail, fs, environ>>

------------------------------------------------------------------------------
Next ==
    \/ Main
    \/ MainEnd
    \/ SrvImportChromadb
    \/ SrvDataDir
    \/ SrvBranch
    \/ SrvRunServerEnds
    \/ SrvImportApp
    \/ SrvImportUvicorn
    \/ SrvSetEnv
    \/ SrvUvicornEnds
    \/ SmpImportChromadb
    \/ SmpDataDir
    \/ SmpImportFastapi
    \/ SmpImportUvicorn
    \/ SmpClient
    \/ SmpUvicornEnds
    \/ LocInstallImport
    \/ LocInstallExcept
    \/ LocPipEnds
    \/ LocMainCheck
    \/ LocImportChromadb
    \/ LocImportUvicorn
    \/ LocMkdirs
    \/ LocClient
    \/ LocImportApp
    \/ LocUvicornEnds
    \/ LocAlt
    \/ LocAltUvicornEnds
    \/ DgImportChromadb
    \/ DgImportApp
    \/ DgImportUvicorn
    \/ DgClient
    \/ DgList
    \/ DgContents
    \/ RunExceptClause

Spec == Init /\ [][Next]_vars

------------------------------------------------------------------------------
\* Reading the trace.

Idx == DOMAIN trace

IsRunnerCall(e) == e.k = "call" /\ e.a \in {"chromadb.run_server", "uvicorn.run"}

RunnerCalls == {i \in Idx : IsRunnerCall(trace[i])}

SetEnvs == {i \in Idx : trace[i].k = "setenv"}

Mkdirs == {i \in Idx : trace[i].k = "mkdir"}

Raised(cls) == {i \in Idx : trace[i].k = "raise" /\ trace[i].a = cls}

RaisedAt(cls, where) == {i \in Raised(cls) : trace[i].at \in where}

Said(m) == \E i \in Idx : trace[i].k = "print" /\ trace[i].a = m

\* The package that provides module m.
PackageOf(m) == IF m = "chromadb.server.fastapi.app" THEN "chromadb" ELSE m

InstallHints == {"Install with: pip install chromadb",
                 "Install with: pip install fastapi uvicorn",
                 "Try installing ChromaDB with: pip install chromadb"}

\* Where the server runner blocks.
RunnerPcs == {"srv_in_run_server", "srv_in_uvicorn", "smp_in_uvicorn",
              "loc_in_uvicorn", "loc_in_uvicorn_alt"}

\* The statements after the --data-dir step of "server" and "simple".
PastDataDir == {"srv_branch", "srv_in_run_server", "srv_import_app",
                "srv_import_uvicorn", "srv_setenv", "srv_in_uvicorn",
                "smp_import_fastapi", "smp_import_uvicorn", "smp_client",
                "smp_in_uvicorn"}

DataDirPcs == {"srv_datadir", "smp_datadir"}

\* The statements of start_chromadb_server of "local" and its except clauses.
LocStartPcs == {"loc_import_chromadb", "loc_import_uvicorn", "loc_mkdirs",
                "loc_client", "loc_import_app", "loc_in_uvicorn", "loc_alt",
                "loc_in_uvicorn_alt", "loc_except_import",
                "loc_except_exception"}

------------------------------------------------------------------------------
\* C1 (as claimed): in every bootstrap script, once the process has ended
\* after a required import failed (any import but the probe of
\* install_chromadb, which leads to the installer), the exit status is 1, an
\* install hint naming the missing module's package was printed after the
\* failure, and the server runner was never invoked.
C1_MissingDependencyExitsOne ==
    (script \in Bootstrap /\ pc = "done") =>
        \A i \in RaisedAt("ImportError", STRING \ {"loc_install_import"}) :
            /\ exitCode = "1"
            /\ \E j \in Idx : /\ j > i
                              /\ trace[j].k = "print"
                              /\ trace[j].a \in InstallHints
                              /\ \E m \in trace[i].info :
                                    PackageOf(m) \in trace[j].info
            /\ RunnerCalls = {}

\* C2 (as claimed): in every bootstrap script, once the process has ended
\* after a startup exception that is neither an import error nor a keyboard
\* interrupt, and after which no server start was attempted again, the exit
\* status is not 0.
C2_StartupFailureExitsNonZero ==
    (script \in Bootstrap /\ pc = "done") =>
        \A i \in Raised("OSError") \cup Raised("Exception") :
            (\A j \in RunnerCalls : j < i) => exitCode # "0"

\* The except KeyboardInterrupt clause of each main and what it prints.
MainKbd == [server |-> "srv_main_kbd", simple |-> "smp_main_kbd",
            local |-> "loc_main_kbd"]

StopMessage == [server |-> "Server stopped by user", simple |-> "Server stopped",
                local |-> "ChromaDB server stopped by user"]

\* C3: in every bootstrap script a KeyboardInterrupt raised while the
\* process is blocked in the server runner (the alternative uvicorn.run of
\* "local" included) goes straight to main's except KeyboardInterrupt clause
\* and to no except Exception clause; the next and last thing printed is
\* the stop message, nothing returns False, and the process ends with
\* exit status 0.
C3_KeyboardInterruptExitsZero ==
    script \in Bootstrap =>
        \A i \in Raised("KeyboardInterrupt") :
            /\ trace[i].at \in RunnerPcs
            /\ pc \in {MainKbd[script], "main_end", "done"}
            /\ retval = "none"
            /\ (pc = MainKbd[script]) => Len(trace) = i
            /\ (pc # MainKbd[script]) =>
                   /\ Len(trace) = i + 1
                   /\ trace[i + 1].k = "print"
                   /\ trace[i + 1].a = StopMessage[script]
            /\ (pc = "done") => exitCode = "0"

\* Reached: "local" has ended after an interrupt of its alternative
\* uvicorn.run.
C3_Witness ==
    /\ script = "local"
    /\ pc = "done"
    /\ exitCode = "0"
    /\ RaisedAt("KeyboardInterrupt", {"loc_in_uvicorn_alt"}) # {}

\* C4: in "server" and "simple" with --data-dir X, chromadb importable: the
\* step is never skipped; once it has returned, X and its ancestors are
\* directories, nothing else changed, the file system is as before when X
\* was a directory already, and doing the step again changes nothing and
\* raises nothing; the step raises only when X or an ancestor of X exists
\* and is not a directory, never when X was a directory, and then changes
\* nothing.
C4_DataDirCreatedOnceOrKept ==
    (script \in {"server", "simple"} /\ dataDir # NoDataDir) =>
        /\ (pc \in PastDataDir) => Mkdirs # {}
        /\ (Mkdirs = {}) => fs = fs0
        /\ (Mkdirs # {}) =>
              /\ \A p \in 1..dataDir : fs[p] = "dir"
              /\ \A p \in Paths : p > dataDir => fs[p] = fs0[p]
              /\ (fs0[dataDir] = "dir") => fs = fs0
              /\ DataDirMkdir(fs, dataDir) = [fs |-> fs, err |-> "none"]
              /\ RaisedAt("OSError", DataDirPcs) = {}
        /\ \A i \in RaisedAt("OSError", DataDirPcs) :
              /\ \E p \in 1..dataDir : fs0[p] = "file"
              /\ fs0[dataDir] # "dir"
              /\ fs = fs0

\* Reached: "simple" has made X and its missing parent and has ended.
C4_Witness ==
    /\ script = "simple"
    /\ dataDir = 2
    /\ fs0[1] = "absent"
    /\ fs[1] = "dir" /\ fs[2] = "dir"
    /\ Mkdirs # {}
    /\ pc = "done"

\* C5: in "server" and "simple" without --data-dir, on every path,
\* CHROMA_DB_IMPL and CHROMA_PERSIST_DIRECTORY are never written and no
\* directory is made; "local", which takes no --data-dir, never writes the
\* two variables either.
C5_NoDataDirNoEnvironment ==
    /\ (script \in {"server", "simple"} /\ dataDir = NoDataDir) =>
          /\ SetEnvs = {}
          /\ environ = NoEnviron
          /\ Mkdirs = {}
          /\ fs = fs0
    /\ (script = "local") => (SetEnvs = {} /\ environ = NoEnviron)

\* Reached: "server" without --data-dir has served through the uvicorn
\* fallback and has ended.
C5_Witness ==
    /\ script = "server"
    /\ dataDir = NoDataDir
    /\ ~hasRunServer
    /\ \E i \in RunnerCalls : trace[i].a = "uvicorn.run"
    /\ pc = "done"

OnlyReportedAfter(i) ==
    \A j \in Idx : j > i =>
        \/ trace[j].k = "print"
        \/ trace[j].k = "raise" /\ trace[j].a = "SystemExit"

C7_DiagnosticNeverRaises ==
    (script = "diag") =>
        /\ exitCode # "1"
        /\ \A i \in Idx : trace[i].k = "raise" => pc # "done" \/ exitCode = "0"
        /\ (pc = "done") =>
              /\ retval = (IF chromadbAvail THEN "True" ELSE "False")
              /\ (retval = "False") <=>
                     RaisedAt("ImportError", {"dg_import_chromadb"}) # {}
              /\ chromadbAvail =>
                    /\ Said("FastAPI server not available: {e}") <=> ~fastapiAvail
                    /\ Said("Uvicorn not available: {e}") <=> ~uvicornAvail
                    /\ Said("ChromaDB module contents:")

\* Reached: both optional imports and the collection listing failed, and
\* test_chromadb has returned True.
C7_Witness ==
    /\ script = "diag"
    /\ pc = "done"
    /\ ~fastapiAvail /\ ~uvicornAvail
    /\ RaisedAt("Exception", {"dg_list"}) # {}
    /\ retval = "True"

\* C8: in "server" at most one server runner is invoked; run_server is
\* invoked only when chromadb has it, with host, port and, exactly when
\* --data-dir is given, persist_directory, and then the fastapi app is not
\* imported, uvicorn is not run and no variable is written; the fallback is
\* entered exactly when run_server is missing, and the two variables are
\* written only on it and only with --data-dir.
C8_ExactlyOneServerPath ==
    (script = "server") =>
        /\ Cardinality(RunnerCalls) <= 1
        /\ \A i \in RunnerCalls :
              IF trace[i].a = "chromadb.run_server"
              THEN /\ hasRunServer
                   /\ trace[i].info = {"host", "port"} \cup
                        (IF dataDir # NoDataDir THEN {"persist_directory"} ELSE {})
                   /\ SetEnvs = {}
                   /\ environ = NoEnviron
                   /\ \A j \in Idx : trace[j].k = "import" =>
                          trace[j].a = "chromadb"
              ELSE /\ ~hasRunServer
                   /\ \E j \in Idx : /\ j < i
                                     /\ trace[j].k = "import"
                                     /\ trace[j].a = "chromadb.server.fastapi.app"
        /\ (pc \in {"srv_import_app", "srv_import_uvicorn", "srv_setenv",
                    "srv_in_uvicorn"}) => ~hasRunServer
        /\ (pc = "srv_in_run_server") => hasRunServer
        /\ (SetEnvs # {}) => (~hasRunServer /\ dataDir # NoDataDir)
        /\ (pc = "srv_in_uvicorn" /\ dataDir # NoDataDir) => SetEnvs # {}

\* Reached: "server" with --data-dir has served through run_server and
\* has ended.
C8_Witness ==
    /\ script = "server"
    /\ hasRunServer
    /\ dataDir # NoDataDir
    /\ \E i \in RunnerCalls : trace[i].a = "chromadb.run_server"
    /\ pc = "done"

PipCalls == {i \in Idx : trace[i].k = "call" /\ trace[i].a = "pip install"}

PipFailures == {i \in Idx : trace[i].k = "raise" /\ trace[i].at = "loc_in_pip"}

\* C9: "local" runs pip at most once and only after the import of chromadb
\* in install_chromadb failed; when pip fails, start_chromadb_server is
\* never entered, no directory is made, no server runner is invoked and the
\* process ends with exit status 1; start_chromadb_server is entered only
\* after install_chromadb returned True.
C9_InstallerGatesServerStart ==
    (script = "local") =>
        /\ Cardinality(PipCalls) <= 1
        /\ \A i \in PipCalls :
              \E j \in RaisedAt("ImportError", {"loc_install_import"}) : j < i
        /\ (PipFailures # {}) =>
              /\ pc \notin LocStartPcs
              /\ \A j \in Idx : trace[j].at \notin LocStartPcs
              /\ Mkdirs = {} /\ fs = fs0
              /\ RunnerCalls = {}
              /\ (pc = "done") => exitCode = "1"
        /\ (pc \in LocStartPcs \/ \E j \in Idx : trace[j].at \in LocStartPcs) =>
              installed = "True"

\* Reached: pip exited non-zero and "local" has ended with status 1.
C9_Witness ==
    /\ script = "local"
    /\ Raised("CalledProcessError") # {}
    /\ installed = "False"
    /\ pc = "done"
    /\ exitCode = "1"

\* Obtaining the library's application or client object.
IsObtained(e) ==
    \/ e.k = "import" /\ e.a = "chromadb.server.fastapi.app"
    \/ e.k = "call" /\ e.a \in {"chromadb.Client", "chromadb.PersistentClient"}

\* C10 (as claimed): in "server" and "simple", every write of
\* CHROMA_DB_IMPL and CHROMA_PERSIST_DIRECTORY comes before the library's
\* application or client object is obtained and before the server runner is
\* invoked.
C10_PersistenceSetBeforeAppObtained ==
    (script \in {"server", "simple"}) =>
        \A i \in SetEnvs : \A j \in Idx :
            (IsObtained(trace[j]) \/ IsRunnerCall(trace[j])) => i < j

====
